---- MODULE Spec2Model ----
(***************************************************************************)
(* Version comparison and constraint-tree parsing of libronda.              *)
(*                                                                         *)
(* Strings that the code inspects character by character (PEP440 tokens,   *)
(* lexicographic parts) are sequences of one-character strings.  A Version *)
(* is the sequence of its VersionPart values (Version.parts); the text a   *)
(* version was parsed from plays no part in comparison.                    *)
(***************************************************************************)
EXTENDS Integers, Sequences, FiniteSets, TLC

\* ------------------------------------------------------------------ bounds

\* Longest version (number of parts) drawn as an input.
MaxParts == 3

\* Longest specifier (number of tokens) fed to treeify.
MaxTokens == 6

\* Most children of a tree drawn as an input whose children are all leaves.
MaxTreeParts == 3

\* --------------------------------------------------------------- characters

\* The characters used by the inputs, in byte order.
Ascii ==
    << "0", "1", "2", "A", "C", "D", "E", "O", "P", "R", "S", "T", "V",
       "a", "c", "d", "e", "o", "p", "r", "s", "t", "v", "z" >>

CharCode(c) == CHOOSE i \in 1..Len(Ascii) : Ascii[i] = c

UpperToLower ==
    [c \in {"A", "C", "D", "E", "O", "P", "R", "S", "T", "V"} |->
        CASE c = "A" -> "a" [] c = "C" -> "c" [] c = "D" -> "d" [] c = "E" -> "e"
          [] c = "O" -> "o" [] c = "P" -> "p" [] c = "R" -> "r" [] c = "S" -> "s"
          [] c = "T" -> "t" [] c = "V" -> "v"]

to_ascii_lowercase(c) == IF c \in DOMAIN UpperToLower THEN UpperToLower[c] ELSE c

to_lowercase(s) == [i \in 1..Len(s) |-> to_ascii_lowercase(s[i])]

\* Ordering of two character strings, element by element, shorter prefix first
\* (the order of Rust's str / Iterator::cmp).
RECURSIVE str_cmp(_, _)
str_cmp(a, b) ==
    IF a = <<>> /\ b = <<>> THEN "Equal"
    ELSE IF a = <<>> THEN "Less"
    ELSE IF b = <<>> THEN "Greater"
    ELSE IF CharCode(Head(a)) < CharCode(Head(b)) THEN "Less"
    ELSE IF CharCode(Head(a)) > CharCode(Head(b)) THEN "Greater"
    ELSE str_cmp(Tail(a), Tail(b))

\* Regex::is_match of an unanchored literal: `sub` occurs somewhere in `s`.
contains(s, sub) ==
    \E i \in 1..(Len(s) - Len(sub) + 1) : SubSeq(s, i, i + Len(sub) - 1) = sub

int_cmp(a, b) == IF a < b THEN "Less" ELSE IF a > b THEN "Greater" ELSE "Equal"

reverse(ord) ==
    CASE ord = "Less" -> "Greater"
      [] ord = "Greater" -> "Less"
      [] OTHER -> ord

\* ------------------------------------------------------------ PEP440String

\* compare_pep440_str with the empty token losing to a non-empty one.
compare_pep440_str_empty_loses(left, right) ==
    LET post_l == contains(to_lowercase(left), <<"p", "o", "s", "t">>)
        post_r == contains(to_lowercase(right), <<"p", "o", "s", "t">>)
        dev_l == contains(to_lowercase(left), <<"d", "e", "v">>)
        dev_r == contains(to_lowercase(right), <<"d", "e", "v">>)
    IN  IF post_l /\ post_r THEN "Equal"
        ELSE IF ~post_l /\ post_r THEN "Less"
        ELSE IF post_l /\ ~post_r THEN "Greater"
        ELSE IF left = <<>> /\ right = <<>> THEN "Equal"
        ELSE IF left # <<>> /\ right = <<>> THEN "Greater"
        ELSE IF left = <<>> /\ right # <<>> THEN "Less"
        ELSE IF dev_l /\ dev_r THEN "Equal"
        ELSE IF ~dev_l /\ dev_r THEN "Greater"
        ELSE IF dev_l /\ ~dev_r THEN "Less"
        ELSE str_cmp(to_lowercase(left), to_lowercase(right))

compare_pep440_str(left, right) ==
    LET post_l == contains(to_lowercase(left), <<"p", "o", "s", "t">>)
        post_r == contains(to_lowercase(right), <<"p", "o", "s", "t">>)
        dev_l == contains(to_lowercase(left), <<"d", "e", "v">>)
        dev_r == contains(to_lowercase(right), <<"d", "e", "v">>)
    IN  IF post_l /\ post_r THEN "Equal"
        ELSE IF ~post_l /\ post_r THEN "Less"
        ELSE IF post_l /\ ~post_r THEN "Greater"
        ELSE IF left = <<>> /\ right = <<>> THEN "Equal"
        ELSE IF left # <<>> /\ right = <<>> THEN "Less"
        ELSE IF left = <<>> /\ right # <<>> THEN "Greater"
        ELSE IF dev_l /\ dev_r THEN "Equal"
        ELSE IF ~dev_l /\ dev_r THEN "Greater"
        ELSE IF dev_l /\ ~dev_r THEN "Less"
        ELSE str_cmp(to_lowercase(left), to_lowercase(right))

\* -------------------------------------------------------------- VersionPart

Epoch(v) == [variant |-> "Epoch", num |-> v, alpha |-> <<>>]
Integer(v) == [variant |-> "Integer", num |-> v, alpha |-> <<>>]
LexicographicString(s) == [variant |-> "LexicographicString", num |-> 0, alpha |-> s]
PEP440String(s) == [variant |-> "PEP440String", num |-> 0, alpha |-> s]
Empty == [variant |-> "Empty", num |-> 0, alpha |-> <<>>]

get_empty_wrong_integer(self) ==
    CASE self.variant = "Epoch" -> Epoch(0)
      [] self.variant = "Integer" -> Integer(1)
      [] self.variant = "LexicographicString" -> LexicographicString(<<>>)
      [] self.variant = "PEP440String" -> PEP440String(<<>>)
      [] OTHER -> Empty

get_empty(self) ==
    CASE self.variant = "Epoch" -> Epoch(0)
      [] self.variant = "Integer" -> Integer(0)
      [] self.variant = "LexicographicString" -> LexicographicString(<<>>)
      [] self.variant = "PEP440String" -> PEP440String(<<>>)
      [] OTHER -> Empty

\* variant_position with Integer placed above Epoch.
variant_position_integer_first(self) ==
    CASE self.variant = "Epoch" -> 1
      [] self.variant = "Integer" -> 0
      [] self.variant = "LexicographicString" -> 2
      [] self.variant = "PEP440String" -> 3
      [] OTHER -> 4

\* Position of a variant in the enum ("things at the top are higher").
variant_position(self) ==
    CASE self.variant = "Epoch" -> 0
      [] self.variant = "Integer" -> 1
      [] self.variant = "LexicographicString" -> 2
      [] self.variant = "PEP440String" -> 3
      [] OTHER -> 4

partial_cmp(self, other) ==
    IF self.variant = "Epoch" /\ other.variant = "Epoch" THEN int_cmp(self.num, other.num)
    ELSE IF self.variant = "Integer" /\ other.variant = "Integer" THEN int_cmp(self.num, other.num)
    ELSE IF self.variant = "LexicographicString" /\ other.variant = "LexicographicString"
        THEN str_cmp(self.alpha, other.alpha)
    ELSE IF self.variant = "PEP440String" /\ other.variant = "PEP440String"
        THEN compare_pep440_str(self.alpha, other.alpha)
    ELSE reverse(int_cmp(variant_position(self), variant_position(other)))

\* impl PartialEq for VersionPart
eq(self, other) == partial_cmp(self, other) = "Equal"

\* ------------------------------------------------------------------ CompOp

CompOps ==
    { "Eq", "Ne", "Lt", "Le", "Ge", "Gt",
      "StartsWith", "NotStartsWith", "Compatible", "Incompatible" }

from_ord(ord) ==
    CASE ord = "Less" -> "Lt"
      [] ord = "Equal" -> "Eq"
      [] ord = "Greater" -> "Gt"

\* invert with Le and Ge both sent to Lt.
invert_le_to_lt(self) ==
    CASE self = "Eq" -> "Ne"
      [] self = "Ne" -> "Eq"
      [] self = "Lt" -> "Ge"
      [] self = "Le" -> "Lt"
      [] self = "Ge" -> "Lt"
      [] self = "Gt" -> "Le"
      [] self = "StartsWith" -> "NotStartsWith"
      [] self = "NotStartsWith" -> "StartsWith"
      [] self = "Compatible" -> "Incompatible"
      [] self = "Incompatible" -> "Compatible"

invert(self) ==
    CASE self = "Eq" -> "Ne"
      [] self = "Ne" -> "Eq"
      [] self = "Lt" -> "Ge"
      [] self = "Le" -> "Gt"
      [] self = "Ge" -> "Lt"
      [] self = "Gt" -> "Le"
      [] self = "StartsWith" -> "NotStartsWith"
      [] self = "NotStartsWith" -> "StartsWith"
      [] self = "Compatible" -> "Incompatible"
      [] self = "Incompatible" -> "Compatible"

\* opposite with Eq and Ne left as they are.
opposite_eq_ne_fixed(self) ==
    CASE self = "Eq" -> "Eq"
      [] self = "Ne" -> "Ne"
      [] self = "Lt" -> "Gt"
      [] self = "Le" -> "Ge"
      [] self = "Ge" -> "Le"
      [] self = "Gt" -> "Lt"
      [] self = "StartsWith" -> "NotStartsWith"
      [] self = "NotStartsWith" -> "StartsWith"
      [] self = "Compatible" -> "Incompatible"
      [] self = "Incompatible" -> "Compatible"

opposite(self) ==
    CASE self = "Eq" -> "Ne"
      [] self = "Ne" -> "Eq"
      [] self = "Lt" -> "Gt"
      [] self = "Le" -> "Ge"
      [] self = "Ge" -> "Le"
      [] self = "Gt" -> "Lt"
      [] self = "StartsWith" -> "NotStartsWith"
      [] self = "NotStartsWith" -> "StartsWith"
      [] self = "Compatible" -> "Incompatible"
      [] self = "Incompatible" -> "Compatible"

\* flip with every operator returned as it is.
flip_identity(self) == self

flip(self) ==
    CASE self = "Lt" -> "Gt"
      [] self = "Le" -> "Ge"
      [] self = "Ge" -> "Le"
      [] self = "Gt" -> "Lt"
      [] OTHER -> self

factor(self) ==
    CASE self \in {"Eq", "Ne"} -> 0
      [] self \in {"Lt", "Le"} -> -1
      [] self \in {"Gt", "Ge"} -> 1
      [] OTHER -> 0

\* "==" | "!=" | ... -> CompOp; "err" for an unknown sign.
from_sign(sign) ==
    CASE sign = "==" -> "Eq"
      [] sign = "!=" -> "Ne"
      [] sign = "<" -> "Lt"
      [] sign = "<=" -> "Le"
      [] sign = ">=" -> "Ge"
      [] sign = ">" -> "Gt"
      [] sign = "=" -> "StartsWith"
      [] sign = "!=startswith" -> "NotStartsWith"
      [] sign = "~=" -> "Compatible"
      [] sign = "!~=" -> "Incompatible"
      [] OTHER -> "err"

\* ----------------------------------------------------------------- Version

\* The (None, Some(j)) arm comparing j with its empty value, operands swapped.
RECURSIVE compare_iter_swapped_tail(_, _)
compare_iter_swapped_tail(iter, other_iter) ==
    IF iter = <<>> /\ other_iter = <<>> THEN "Eq"
    ELSE IF other_iter = <<>>
        THEN from_ord(partial_cmp(Head(iter), get_empty(Head(iter))))
    ELSE IF iter = <<>>
        THEN from_ord(partial_cmp(Head(other_iter), get_empty(Head(other_iter))))
    ELSE IF partial_cmp(Head(iter), Head(other_iter)) = "Equal"
        THEN compare_iter_swapped_tail(Tail(iter), Tail(other_iter))
    ELSE from_ord(partial_cmp(Head(iter), Head(other_iter)))

\* One pass of the loop per position; every arm but (Some, Some) = Equal returns.
RECURSIVE compare_iter(_, _)
compare_iter(iter, other_iter) ==
    IF iter = <<>> /\ other_iter = <<>> THEN "Eq"
    ELSE IF other_iter = <<>>
        THEN from_ord(partial_cmp(Head(iter), get_empty(Head(iter))))
    ELSE IF iter = <<>>
        THEN from_ord(partial_cmp(get_empty(Head(other_iter)), Head(other_iter)))
    ELSE IF partial_cmp(Head(iter), Head(other_iter)) = "Equal"
        THEN compare_iter(Tail(iter), Tail(other_iter))
    ELSE from_ord(partial_cmp(Head(iter), Head(other_iter)))

compare(self, other) == compare_iter(self, other)

compare_to_le_strict(self, other, operator) ==
    LET result == compare(self, other)
    IN  CASE result = "Eq" -> operator \in {"Eq", "Ge"}
          [] result = "Lt" -> operator \in {"Ne", "Lt", "Le"}
          [] result = "Gt" -> operator \in {"Ne", "Gt", "Ge"}

compare_to(self, other, operator) ==
    LET result == compare(self, other)
    IN  CASE result = "Eq" -> operator \in {"Eq", "Le", "Ge"}
          [] result = "Lt" -> operator \in {"Ne", "Lt", "Le"}
          [] result = "Gt" -> operator \in {"Ne", "Gt", "Ge"}

\* Version::compare_to taking the other Version by reference (the name the
\* matcher and the Python binding call).
compare_to_version(self, other, operator) == compare_to(self, other, operator)

\* ---------------------------------------------------------- ConstraintTree

\* StringOrConstraintTree::String and StringOrConstraintTree::ConstraintTree.
StringItem(s) == [kind |-> "String", s |-> s]
TreeItem(t) == [kind |-> "ConstraintTree", tree |-> t]

ConstraintTree(combinator, parts) == [combinator |-> combinator, parts |-> parts]

\* impl From<&str> for Combinator
Combinator_from(input) ==
    CASE input = "," -> "And"
      [] input = "|" -> "Or"
      [] OTHER -> "None"

\* condense with a popped tree never opened.
condense_without_fusing(item, c, condensed) == <<item>> \o condensed

\* One turn of the `for _ in 0..2` loop of _apply_ops: the popped item goes to
\* the front of `condensed`, its parts instead when it is a tree joined by c.
condense(item, c, condensed) ==
    IF item.kind = "ConstraintTree" /\ item.tree.combinator = c
    THEN item.tree.parts \o condensed
    ELSE <<item>> \o condensed

\* The while loop of _apply_ops; cstop is the set of characters of the cstop
\* string.  Yields the error ("" for Ok) with the output and stack it leaves.
RECURSIVE apply_ops(_, _, _)
apply_ops(cstop, output, stack) ==
    IF Len(stack) > 0 /\ stack[Len(stack)] \notin cstop
    THEN IF Len(output.parts) < 2
         THEN [err |-> "can't join single expression", output |-> output, stack |-> stack]
         ELSE LET c == Combinator_from(stack[Len(stack)])
                  n == Len(output.parts)
                  condensed == condense(output.parts[n - 1], c,
                                        condense(output.parts[n], c, <<>>))
                  condensed_output == ConstraintTree(c, condensed)
                  rest == SubSeq(output.parts, 1, n - 2)
              IN  apply_ops(cstop,
                            IF Len(rest) > 0
                            THEN ConstraintTree(output.combinator,
                                                Append(rest, TreeItem(condensed_output)))
                            ELSE condensed_output,
                            SubSeq(stack, 1, Len(stack) - 1))
    ELSE [err |-> "", output |-> output, stack |-> stack]

\* The body of treeify's `for item in tokens` for one token.
treeify_item(item, output, stack) ==
    CASE item = "(" ->
            [err |-> "", output |-> output, stack |-> Append(stack, "(")]
      [] item = "|" ->
            LET r == apply_ops({"("}, output, stack)
            IN  IF r.err # "" THEN r
                ELSE [err |-> "", output |-> r.output, stack |-> Append(r.stack, "|")]
      [] item = "," ->
            LET r == apply_ops({"|", "("}, output, stack)
            IN  IF r.err # "" THEN r
                ELSE [err |-> "", output |-> r.output, stack |-> Append(r.stack, ",")]
      [] item = ")" ->
            LET r == apply_ops({"("}, output, stack)
            IN  IF r.err # "" THEN r
                ELSE IF r.stack = <<>> \/ r.stack[Len(r.stack)] # "("
                THEN [err |-> "expression must start with \"(\"",
                      output |-> r.output, stack |-> r.stack]
                ELSE [err |-> "", output |-> r.output,
                      stack |-> SubSeq(r.stack, 1, Len(r.stack) - 1)]
      [] OTHER ->
            LET wrapped == IF output.combinator # "None"
                           THEN ConstraintTree("None", <<TreeItem(output)>>)
                           ELSE output
            IN  [err |-> "",
                 output |-> ConstraintTree(wrapped.combinator,
                                           Append(wrapped.parts, StringItem(item))),
                 stack |-> stack]

\* ConstraintTree::evaluate with the leaves' test_match results given by
\* `truth` (the set of leaf specifiers the candidate matches).  Iterator::all
\* and Iterator::any stop at the first deciding child; "panic" is the panic!()
\* of the None arm.
RECURSIVE evaluate(_, _)
RECURSIVE eval_all(_, _, _)
RECURSIVE eval_any(_, _, _)
eval_part(a, truth) ==
    IF a.kind = "String"
    THEN (IF a.s \in truth THEN "true" ELSE "false")
    ELSE evaluate(a.tree, truth)

eval_all(parts, i, truth) ==
    IF i > Len(parts) THEN "true"
    ELSE LET r == eval_part(parts[i], truth)
         IN  IF r = "true" THEN eval_all(parts, i + 1, truth) ELSE r

eval_any(parts, i, truth) ==
    IF i > Len(parts) THEN "false"
    ELSE LET r == eval_part(parts[i], truth)
         IN  IF r = "false" THEN eval_any(parts, i + 1, truth) ELSE r

evaluate(self, truth) ==
    CASE self.combinator = "And" -> eval_all(self.parts, 1, truth)
      [] self.combinator = "Or" -> eval_any(self.parts, 1, truth)
      [] OTHER -> "panic"

\* impl PartialEq for StringOrConstraintTree and for ConstraintTree: the
\* parts of the two trees are zipped, so the comparison ends with the shorter
\* of the two, and the combinators are not looked at.
RECURSIVE ConstraintTree_eq(_, _)
RECURSIVE Parts_eq(_, _, _)
StringOrConstraintTree_eq(self, other) ==
    CASE self.kind = "String" /\ other.kind = "String" -> self.s = other.s
      [] self.kind = "ConstraintTree" /\ other.kind = "ConstraintTree" ->
            ConstraintTree_eq(self.tree, other.tree)
      [] OTHER -> FALSE

Parts_eq(a, b, i) ==
    IF i > Len(a) \/ i > Len(b) THEN TRUE
    ELSE IF ~StringOrConstraintTree_eq(a[i], b[i]) THEN FALSE
    ELSE Parts_eq(a, b, i + 1)

ConstraintTree_eq(self, other) == Parts_eq(self.parts, other.parts, 1)

\* ConstraintTree::combine; a string is the sequence of its tokens, which is
\* what the tokenizer of treeify makes of it again (combine puts a "," or a
\* "|" between any two children, so no two leaves run together).  Yields the
\* error ("" for Ok) and the string.
RECURSIVE combine(_, _, _)
RECURSIVE combine_parts(_, _, _)
combine_parts(self, i, sep) ==
    IF i > Len(self.parts) THEN [err |-> "", str |-> <<>>]
    ELSE LET item == self.parts[i]
             one == IF item.kind = "String"
                    THEN [err |-> "", str |-> <<item.s>>]
                    ELSE combine(item.tree, self.combinator = "And", TRUE)
             rest == combine_parts(self, i + 1, sep)
         IN  IF one.err # "" THEN one
             ELSE IF rest.err # "" THEN rest
             ELSE [err |-> "",
                   str |-> IF i = Len(self.parts) THEN one.str
                           ELSE one.str \o <<sep>> \o rest.str]

\* combine with parentheses only around a nested tree inside an And.
combine_parens_in_and_only(self, inand, nested) ==
    CASE Len(self.parts) = 1 ->
            IF self.parts[1].kind = "String"
            THEN [err |-> "", str |-> <<self.parts[1].s>>]
            ELSE [err |-> "Can't combine (stringify) single-element ConstraintTree that isn't just a string",
                  str |-> <<>>]
      [] Len(self.parts) = 0 ->
            [err |-> "Can't combine (stringify) a zero-element ConstraintTree", str |-> <<>>]
      [] OTHER ->
            LET res == combine_parts(self, 1, IF self.combinator = "And" THEN "," ELSE "|")
            IN  IF res.err # "" THEN res
                ELSE IF inand /\ nested
                THEN [err |-> "", str |-> <<"(">> \o res.str \o <<")">>]
                ELSE res

\* combine with an error for every tree of one child.
combine_single_is_error(self, inand, nested) ==
    CASE Len(self.parts) = 1 ->
            [err |-> "Can't combine (stringify) single-element ConstraintTree that isn't just a string",
             str |-> <<>>]
      [] Len(self.parts) = 0 ->
            [err |-> "Can't combine (stringify) a zero-element ConstraintTree", str |-> <<>>]
      [] OTHER ->
            LET res == combine_parts(self, 1, IF self.combinator = "And" THEN "," ELSE "|")
            IN  IF res.err # "" THEN res
                ELSE IF inand \/ nested
                THEN [err |-> "", str |-> <<"(">> \o res.str \o <<")">>]
                ELSE res

combine(self, inand, nested) ==
    CASE Len(self.parts) = 1 ->
            IF self.parts[1].kind = "String"
            THEN [err |-> "", str |-> <<self.parts[1].s>>]
            ELSE [err |-> "Can't combine (stringify) single-element ConstraintTree that isn't just a string",
                  str |-> <<>>]
      [] Len(self.parts) = 0 ->
            [err |-> "Can't combine (stringify) a zero-element ConstraintTree", str |-> <<>>]
      [] OTHER ->
            LET res == combine_parts(self, 1, IF self.combinator = "And" THEN "," ELSE "|")
            IN  IF res.err # "" THEN res
                ELSE IF inand \/ nested
                THEN [err |-> "", str |-> <<"(">> \o res.str \o <<")">>]
                ELSE res

untreeify(spec) == combine(spec, FALSE, FALSE)

\* treeify on the whole token sequence of spec_str: the loop over the tokens
\* of "(" spec_str ")" and the check of the stack after it.
RECURSIVE treeify_loop(_, _, _)
treeify_loop(toks, output, stack) ==
    IF toks = <<>> THEN [err |-> "", output |-> output, stack |-> stack]
    ELSE LET r == treeify_item(Head(toks), output, stack)
         IN  IF r.err # "" THEN r ELSE treeify_loop(Tail(toks), r.output, r.stack)

treeify(spec_str) ==
    LET r == treeify_loop(<<"(">> \o spec_str \o <<")">>,
                          ConstraintTree("None", <<>>), <<>>)
    IN  IF r.err # "" THEN [err |-> r.err, tree |-> ConstraintTree("None", <<>>)]
        ELSE IF r.stack # <<>>
        THEN [err |-> "unable to convert to expression tree",
              tree |-> ConstraintTree("None", <<>>)]
        ELSE [err |-> "", tree |-> r.output]

\* ---------------------------------------------------------------- matching

\* MatchOperator { operator, version } as create_match_enum_from_operator_str
\* builds it from the operator sign and the version text of a token.
MatchOperator(operator_str, version) ==
    [operator |-> from_sign(operator_str), version |-> version]

MatchOperator_test(self, other) ==
    compare_to_version(self.version, other, self.operator)

\* ------------------------------------------------------- specifier tokens

\* The characters of each string used as a specifier token, a candidate
\* version or an operator sign.
CharsOf ==
    ("" :> <<>>) @@
    ("1.1" :> <<"1", ".", "1">>) @@
    ("1.1.*" :> <<"1", ".", "1", ".", "*">>) @@
    ("1.1*" :> <<"1", ".", "1", "*">>) @@
    ("=1.1" :> <<"=", "1", ".", "1">>) @@
    ("=1.1.*" :> <<"=", "1", ".", "1", ".", "*">>) @@
    ("=1.1*" :> <<"=", "1", ".", "1", "*">>) @@
    ("==1.1" :> <<"=", "=", "1", ".", "1">>) @@
    ("==1.1.*" :> <<"=", "=", "1", ".", "1", ".", "*">>) @@
    ("==1.1*" :> <<"=", "=", "1", ".", "1", "*">>) @@
    ("!=1.1" :> <<"!", "=", "1", ".", "1">>) @@
    ("!=1.1.*" :> <<"!", "=", "1", ".", "1", ".", "*">>) @@
    ("!=1.1*" :> <<"!", "=", "1", ".", "1", "*">>) @@
    ("<1.1" :> <<"<", "1", ".", "1">>) @@
    ("<1.1.*" :> <<"<", "1", ".", "1", ".", "*">>) @@
    ("<1.1*" :> <<"<", "1", ".", "1", "*">>) @@
    ("<=1.1" :> <<"<", "=", "1", ".", "1">>) @@
    ("<=1.1.*" :> <<"<", "=", "1", ".", "1", ".", "*">>) @@
    ("<=1.1*" :> <<"<", "=", "1", ".", "1", "*">>) @@
    (">1.1" :> <<">", "1", ".", "1">>) @@
    (">1.1.*" :> <<">", "1", ".", "1", ".", "*">>) @@
    (">1.1*" :> <<">", "1", ".", "1", "*">>) @@
    (">=1.1" :> <<">", "=", "1", ".", "1">>) @@
    (">=1.1.*" :> <<">", "=", "1", ".", "1", ".", "*">>) @@
    (">=1.1*" :> <<">", "=", "1", ".", "1", "*">>) @@
    ("~=1.1" :> <<"~", "=", "1", ".", "1">>) @@
    ("~=1.1.*" :> <<"~", "=", "1", ".", "1", ".", "*">>) @@
    ("~=1.1*" :> <<"~", "=", "1", ".", "1", "*">>) @@
    ("===1.1" :> <<"=", "=", "=", "1", ".", "1">>) @@
    ("===1.1.*" :> <<"=", "=", "=", "1", ".", "1", ".", "*">>) @@
    ("===1.1*" :> <<"=", "=", "=", "1", ".", "1", "*">>) @@
    ("><1.1" :> <<">", "<", "1", ".", "1">>) @@
    ("><1.1.*" :> <<">", "<", "1", ".", "1", ".", "*">>) @@
    ("><1.1*" :> <<">", "<", "1", ".", "1", "*">>) @@
    ("!!1.1" :> <<"!", "!", "1", ".", "1">>) @@
    ("!!1.1.*" :> <<"!", "!", "1", ".", "1", ".", "*">>) @@
    ("!!1.1*" :> <<"!", "!", "1", ".", "1", "*">>) @@
    ("1" :> <<"1">>) @@
    ("1.*" :> <<"1", ".", "*">>) @@
    ("1.1.0" :> <<"1", ".", "1", ".", "0">>) @@
    ("*" :> <<"*">>) @@
    ("1.*.1" :> <<"1", ".", "*", ".", "1">>) @@
    ("1.1@1" :> <<"1", ".", "1", "@", "1">>) @@
    ("^1.1$" :> <<"^", "1", ".", "1", "$">>) @@
    ("^1.1" :> <<"^", "1", ".", "1">>) @@
    ("1.1$" :> <<"1", ".", "1", "$">>) @@
    ("^" :> <<"^">>) @@
    ("!" :> <<"!">>) @@
    ("~" :> <<"~">>) @@
    ("1.0" :> <<"1", ".", "0">>) @@
    ("1.1.1" :> <<"1", ".", "1", ".", "1">>) @@
    ("1.2" :> <<"1", ".", "2">>) @@
    ("2" :> <<"2">>) @@
    ("=" :> <<"=">>) @@
    ("==" :> <<"=", "=">>) @@
    ("!=" :> <<"!", "=">>) @@
    ("<" :> <<"<">>) @@
    ("<=" :> <<"<", "=">>) @@
    (">" :> <<">">>) @@
    (">=" :> <<">", "=">>) @@
    ("~=" :> <<"~", "=">>)

Chars(s) == CharsOf[s]

starts_with(s, prefix) ==
    Len(s) >= Len(prefix) /\ SubSeq(s, 1, Len(prefix)) = prefix

ends_with(s, suffix) ==
    Len(s) >= Len(suffix) /\ SubSeq(s, Len(s) - Len(suffix) + 1, Len(s)) = suffix

\* str::trim_end_matches with a set of characters.
RECURSIVE trim_end_matches(_, _)
trim_end_matches(s, cs) ==
    IF s # <<>> /\ s[Len(s)] \in cs
    THEN trim_end_matches(SubSeq(s, 1, Len(s) - 1), cs)
    ELSE s

DigitValue == ("0" :> 0) @@ ("1" :> 1) @@ ("2" :> 2)

\* The parts of a version text of digits and dots: one Integer part for each
\* dot-separated number.
RECURSIVE conda_parser_from(_, _, _)
conda_parser_from(s, i, acc) ==
    IF i > Len(s) THEN <<Integer(acc)>>
    ELSE IF s[i] = "." THEN <<Integer(acc)>> \o conda_parser_from(s, i + 1, 0)
    ELSE conda_parser_from(s, i + 1, 10 * acc + DigitValue[s[i]])

conda_parser(s) == conda_parser_from(s, 1, 0)

\* The outcome of a parse entry point: "ok" with the matcher and the is_exact
\* flag, "err" with the message, or "panic".
NoMatcher == [kind |-> "none"]

Ok(matcher, is_exact) ==
    [outcome |-> "ok", matcher |-> matcher, is_exact |-> is_exact, msg |-> ""]

Err(msg) ==
    [outcome |-> "err", matcher |-> NoMatcher, is_exact |-> FALSE, msg |-> msg]

Panic == [outcome |-> "panic", matcher |-> NoMatcher, is_exact |-> FALSE, msg |-> ""]

\* The regex crate has no look-around: Regex::new returns Err for the
\* "(?![=<>!~])" of VERSION_RELATION_RE, and the unwrap() of the static panics
\* when the static is first used.
LookAroundSupported == FALSE

\* The operator alternatives of VERSION_RELATION_RE, in the order of the
\* pattern.
RelationSigns == << "=", "==", "!=", "<=", ">=", "<", ">", "~=" >>

OPERATOR_START == { "=", "<", ">", "!", "~" }

\* VERSION_RELATION_RE.captures: the first alternative after which a
\* character that starts no operator and then only non-blank text follows.
RelationMatches(s, sign) ==
    /\ starts_with(s, Chars(sign))
    /\ Len(s) > Len(Chars(sign))
    /\ s[Len(Chars(sign)) + 1] \notin OPERATOR_START
    /\ \A i \in (Len(Chars(sign)) + 1)..Len(s) : s[i] # " "

captures(s) ==
    LET hits == { i \in 1..Len(RelationSigns) : RelationMatches(s, RelationSigns[i]) }
    IN  IF hits = {} THEN [matched |-> FALSE, sign |-> "", v_str |-> <<>>]
        ELSE LET i == CHOOSE h \in hits : \A g \in hits : h <= g
                 sign == RelationSigns[i]
             IN  [matched |-> TRUE, sign |-> sign,
                  v_str |-> SubSeq(s, Len(Chars(sign)) + 1, Len(s))]

create_match_enum_from_operator_str(input) ==
    IF ~LookAroundSupported THEN Panic
    ELSE LET caps == captures(Chars(input))
         IN  IF ~caps.matched THEN Err("invalid operator in string")
             ELSE IF ends_with(caps.v_str, <<".", "*">>) /\ caps.sign = "~="
             THEN Err("invalid operator (~=) with '.*' in spec string")
             ELSE LET star == ends_with(caps.v_str, <<".", "*">>)
                      operator_str == IF star /\ caps.sign = "!="
                                      THEN "!=startswith" ELSE caps.sign
                      v_str == IF star
                               THEN SubSeq(caps.v_str, 1, Len(caps.v_str) - 2)
                               ELSE caps.v_str
                  IN  IF from_sign(operator_str) = "err" THEN Panic
                      ELSE Ok([kind |-> "MatchOperator",
                               m |-> MatchOperator(operator_str, conda_parser(v_str))],
                              operator_str = "==")

get_matcher(input) ==
    LET s == Chars(input)
    IN  IF starts_with(s, <<"^">>) \/ ends_with(s, <<"$">>)
        THEN IF ~starts_with(s, <<"^">>) \/ ~ends_with(s, <<"$">>)
             THEN Err("regex specs must start with '^' and end with '$'")
             ELSE Ok([kind |-> "MatchRegex", m |-> [expression |-> input]], FALSE)
        ELSE IF s = <<>> THEN Panic
        ELSE IF s[1] \in OPERATOR_START
        THEN LET r == create_match_enum_from_operator_str(input)
             IN  IF r.outcome = "ok" THEN r ELSE Panic
        ELSE IF input = "*"
        THEN Ok([kind |-> "MatchAlways", m |-> <<>>], FALSE)
        ELSE IF contains(trim_end_matches(s, {"*"}), <<"*">>)
        THEN Ok([kind |-> "MatchRegex", m |-> [expression |-> input]], FALSE)
        ELSE IF ends_with(s, <<"*">>)
        THEN Ok([kind |-> "MatchOperator",
                 m |-> [operator |-> "StartsWith",
                        version |-> conda_parser(trim_end_matches(s, {"*", "."}))]],
                FALSE)
        ELSE IF ~contains(s, <<"@">>)
        THEN Ok([kind |-> "MatchOperator",
                 m |-> [operator |-> "Eq", version |-> conda_parser(s)]],
                TRUE)
        ELSE Ok([kind |-> "MatchExact", m |-> [spec |-> input]], TRUE)

\* impl Default for MatchEnum
MatchEnum_default == [kind |-> "MatchNever"]

\* MatchNever::test answering true.
MatchNever_test_true(other) == "true"

\* MatchNever::test
MatchNever_test(other) == "false"

\* MatchFn::test of the matcher on the candidate version text `other`:
\* "true", "false" or "panic".
MatchEnum_test(matcher, other) ==
    CASE matcher.kind = "MatchOperator" ->
            IF MatchOperator_test(matcher.m, conda_parser(Chars(other)))
            THEN "true" ELSE "false"
      [] matcher.kind = "MatchRegex" -> "panic"
      [] matcher.kind = "MatchAlways" -> "true"
      [] matcher.kind = "MatchExact" ->
            IF other = matcher.m.spec THEN "true" ELSE "false"
      [] matcher.kind = "MatchNever" -> MatchNever_test(other)
      [] OTHER -> "false"

\* impl From<ConstraintTree> for VersionSpec: the matcher recurses into the
\* tree, spec_str is untreeify(&tree).unwrap(), and the spec is never exact.
VersionSpec_from(tree) ==
    IF untreeify(tree).err # "" THEN Panic
    ELSE Ok([kind |-> IF tree.combinator = "Or" THEN "MatchAny" ELSE "MatchAll",
             m |-> [tree |-> tree]],
            FALSE)

\* VersionSpec::try_from on the tokens of the input.  REGEX_SPLIT_RE.split
\* yields at least one piece for every input, so the branch of line 341 is
\* always taken and the classification of lines 345-377 is never reached.
VersionSpec_try_from(input) ==
    IF treeify(input).err # "" THEN Err(treeify(input).err)
    ELSE VersionSpec_from(treeify(input).tree)

\* The single tokens handed to the parse entry points.
SpecTokens ==
    { "1.1", "1.1.*", "1.1*", "=1.1", "=1.1.*", "=1.1*", "==1.1", "==1.1.*",
      "==1.1*", "!=1.1", "!=1.1.*", "!=1.1*", "<1.1", "<1.1.*", "<1.1*",
      "<=1.1", "<=1.1.*", "<=1.1*", ">1.1", ">1.1.*", ">1.1*", ">=1.1",
      ">=1.1.*", ">=1.1*", "~=1.1", "~=1.1.*", "~=1.1*", "===1.1",
      "===1.1.*", "===1.1*", "><1.1", "><1.1.*", "><1.1*", "!!1.1",
      "!!1.1.*", "!!1.1*", "1", "1.*", "1.1.0", "*", "1.*.1", "1.1@1",
      "^1.1$", "^1.1", "1.1$", "^", "!", "~" }

CandidateTexts == { "1", "1.0", "1.1", "1.1.0", "1.1.1", "1.2", "2" }

\* ----------------------------------------------- state: comparing versions

VARIABLES
    ver_a,      \* a version; the candidate handed to test_match
    ver_b,      \* a version; the version of the specifier token
    ver_c,      \* a third version
    pc,         \* "input" | "compared" | "compared_to" | "flipped" | "matched"
    cmp,        \* results of Version::compare on the pairs ab, ba, bc, ac
    cmp_to,     \* CompOp -> result of ver_a.compare_to(ver_b, op)
    cmp_to_flip, \* CompOp -> result of ver_b.compare_to(ver_a, op.flip())
    matched,    \* operator sign -> result of the token's matcher on ver_a
    tokens,     \* the tokens of spec_str that treeify has taken so far
    output,     \* treeify's output tree
    stack,      \* treeify's operator stack
    status,     \* "start" | "parsing" | "ok" | "err" | "untreeified" | "recombined"
    error,      \* the Err message, "" when there is none
    unparsed,   \* the result of untreeify on the tree treeify returned
    reparsed,   \* the result of treeify on the string untreeify returned
    recombined, \* the result of untreeify on the tree of `reparsed`
    spec_str,   \* the tokens of a specifier handed to a parse entry point
    candidate,  \* the text of the candidate version tested against it
    mpc,        \* "input" | "got_matcher" | "constructed" | "tested" | "default_tested"
    parsed,     \* the outcome of get_matcher or VersionSpec::try_from
    verdict,    \* "none", or the outcome of the matcher's test
    part_a,     \* a version part
    part_b,     \* a version part
    comp_op,    \* a comparison operator
    ppc,        \* "input" | "compared" | "inverted" | "opposed" | "flipped"
    part_cmp,   \* results of partial_cmp and eq on part_a and part_b
    inverted,   \* comp_op inverted once and twice
    opposed,    \* comp_op.opposite(), once and twice
    flipped,    \* comp_op.flip(), once and twice
    tree_a,     \* a constraint tree
    tree_b,     \* a constraint tree
    leaf_truth, \* the leaf specifiers the candidate matches
    tpc,        \* "input" | "combined" | "compared" | "evaluated"
    combined,   \* the result of untreeify on tree_a
    trees_equal, \* the result of tree_a == tree_b
    evaluated   \* the outcome of tree_a.evaluate

ver_vars == <<ver_a, ver_b, ver_c, pc, cmp, cmp_to, cmp_to_flip, matched>>

tree_vars == <<tokens, output, stack, status, error, unparsed, reparsed, recombined>>

match_vars == <<spec_str, candidate, mpc, parsed, verdict>>

part_vars == <<part_a, part_b, comp_op, ppc, part_cmp, inverted, opposed, flipped>>

ctree_vars == <<tree_a, tree_b, leaf_truth, tpc, combined, trees_equal, evaluated>>

vars == <<ver_a, ver_b, ver_c, pc, cmp, cmp_to, cmp_to_flip, matched,
          tokens, output, stack, status, error, unparsed, reparsed, recombined,
          spec_str, candidate, mpc, parsed, verdict,
          part_a, part_b, comp_op, ppc, part_cmp, inverted, opposed, flipped,
          tree_a, tree_b, leaf_truth, tpc, combined, trees_equal, evaluated>>

\* Parts the version inputs are built from: two integers and two PEP440
\* strings, each variant with its empty value and one other value.
VersionParts ==
    { Integer(0), Integer(1), PEP440String(<<>>), PEP440String(<<"a">>) }

IntegerParts == { Integer(0), Integer(1) }

SeqsUpTo(S, n) == UNION { [1..k -> S] : k \in 1..n }

Versions == SeqsUpTo(VersionParts, MaxParts)

IntegerVersions == SeqsUpTo(IntegerParts, MaxParts)

RelationalSigns == { "==", "!=", "<", "<=", ">", ">=" }

NoCmp == [ab |-> "none", ba |-> "none", bc |-> "none", ac |-> "none"]

InitResults ==
    /\ pc = "input"
    /\ cmp = NoCmp
    /\ cmp_to = [op \in CompOps |-> FALSE]
    /\ cmp_to_flip = [op \in CompOps |-> FALSE]
    /\ matched = [sign \in RelationalSigns |-> FALSE]

NoResult == [err |-> "none"]

\* treeify's locals as lines 277-278 make them, no token taken yet.
InitTree ==
    /\ tokens = <<>>
    /\ output = ConstraintTree("None", <<>>)
    /\ stack = <<>>
    /\ status = "start"
    /\ error = ""
    /\ unparsed = NoResult
    /\ reparsed = NoResult
    /\ recombined = NoResult

\* No parse entry point called yet.
NoParse == [outcome |-> "none", matcher |-> NoMatcher, is_exact |-> FALSE, msg |-> ""]

InitMatchResults ==
    /\ mpc = "input"
    /\ parsed = NoParse
    /\ verdict = "none"

InitMatchIdle ==
    /\ spec_str = <<>>
    /\ candidate = "1"
    /\ InitMatchResults

NoPartCmp == [ab |-> "none", ba |-> "none", eq |-> FALSE]

NoInverted == [once |-> "none", twice |-> "none"]

InitPartResults ==
    /\ ppc = "input"
    /\ part_cmp = NoPartCmp
    /\ inverted = NoInverted
    /\ opposed = NoInverted
    /\ flipped = NoInverted

InitPartsIdle ==
    /\ part_a = Empty
    /\ part_b = Empty
    /\ comp_op = "Eq"
    /\ InitPartResults

NoTreeResult == [err |-> "none"]

InitTreeResults ==
    /\ tpc = "input"
    /\ leaf_truth = {}
    /\ combined = NoTreeResult
    /\ trees_equal = FALSE
    /\ evaluated = "none"

InitTreesIdle ==
    /\ tree_a = ConstraintTree("None", <<>>)
    /\ tree_b = ConstraintTree("None", <<>>)
    /\ InitTreeResults

\* Two versions of any parts; the third is not used.
InitVersions ==
    /\ ver_a \in Versions
    /\ ver_b \in Versions
    /\ ver_c = ver_a
    /\ InitResults
    /\ InitTree
    /\ InitMatchIdle
    /\ InitPartsIdle
    /\ InitTreesIdle

\* Three integer versions.
InitOrder ==
    /\ ver_a \in IntegerVersions
    /\ ver_b \in IntegerVersions
    /\ ver_c \in IntegerVersions
    /\ InitResults
    /\ InitTree
    /\ InitMatchIdle
    /\ InitPartsIdle
    /\ InitTreesIdle

\* One call of treeify; the versions stay as they are.
InitTreeify ==
    /\ ver_a = <<Integer(0)>>
    /\ ver_b = <<Integer(0)>>
    /\ ver_c = <<Integer(0)>>
    /\ InitResults
    /\ InitTree
    /\ InitMatchIdle
    /\ InitPartsIdle
    /\ InitTreesIdle

\* Version::compare on each pair.
Compare ==
    /\ pc = "input"
    /\ pc' = "compared"
    /\ cmp' = [ab |-> compare(ver_a, ver_b), ba |-> compare(ver_b, ver_a),
               bc |-> compare(ver_b, ver_c), ac |-> compare(ver_a, ver_c)]
    /\ UNCHANGED <<ver_a, ver_b, ver_c, cmp_to, cmp_to_flip, matched>>
    /\ UNCHANGED <<tree_vars, match_vars, part_vars, ctree_vars>>

\* Version::compare_to of ver_a against ver_b, for every operator.
CompareTo ==
    /\ pc = "input"
    /\ pc' = "compared_to"
    /\ cmp' = [cmp EXCEPT !.ab = compare(ver_a, ver_b)]
    /\ cmp_to' = [op \in CompOps |-> compare_to(ver_a, ver_b, op)]
    /\ UNCHANGED <<ver_a, ver_b, ver_c, cmp_to_flip, matched>>
    /\ UNCHANGED <<tree_vars, match_vars, part_vars, ctree_vars>>

\* test_match of the candidate ver_a against the token <sign><ver_b>, for
\* every relational sign.
TestMatch ==
    /\ pc = "input"
    /\ pc' = "matched"
    /\ cmp' = [cmp EXCEPT !.ab = compare(ver_a, ver_b)]
    /\ matched' = [sign \in RelationalSigns |->
                      MatchOperator_test(MatchOperator(sign, ver_b), ver_a)]
    /\ UNCHANGED <<ver_a, ver_b, ver_c, cmp_to, cmp_to_flip>>
    /\ UNCHANGED <<tree_vars, match_vars, part_vars, ctree_vars>>

\* Version::compare_to of ver_a against ver_b for every operator, and of ver_b
\* against ver_a for the flipped operator.
CompareToFlip ==
    /\ pc = "input"
    /\ pc' = "flipped"
    /\ cmp' = [cmp EXCEPT !.ab = compare(ver_a, ver_b)]
    /\ cmp_to' = [op \in CompOps |-> compare_to(ver_a, ver_b, op)]
    /\ cmp_to_flip' = [op \in CompOps |-> compare_to(ver_b, ver_a, flip(op))]
    /\ UNCHANGED <<ver_a, ver_b, ver_c, matched>>
    /\ UNCHANGED <<tree_vars, match_vars, part_vars, ctree_vars>>

NextVersions == Compare \/ CompareTo \/ TestMatch

\* --------------------------------------------------------- treeify, by token

\* Leaf tokens.  A plain token is a maximal run of characters that are not
\* structural, so the token after it is structural; an anchored regex token
\* ends at its "$" and any token can follow it.
PlainTokens == { "a", "b" }

RegexTokens == { "^r$" }

LeafTokens == PlainTokens \union RegexTokens

MustStartError == "expression must start with \"(\""

UnableError == "unable to convert to expression tree"

\* The loop body on one token, with the `?` and `return Err` exits.
TakeItem(item) ==
    LET r == treeify_item(item, output, stack)
    IN  IF r.err # ""
        THEN /\ status' = "err"
             /\ error' = r.err
             /\ UNCHANGED <<output, stack>>
        ELSE /\ status' = "parsing"
             /\ output' = r.output
             /\ stack' = r.stack
             /\ UNCHANGED error

\* The "(" that format!("({})", spec_str) puts before spec_str.
Start ==
    /\ status = "start"
    /\ TakeItem("(")
    /\ UNCHANGED <<tokens, unparsed, reparsed, recombined>>
    /\ UNCHANGED <<ver_vars, match_vars, part_vars, ctree_vars>>

\* One token of spec_str, of which at most MaxTokens are taken.
TakeToken(item) ==
    /\ Len(tokens) < MaxTokens
    /\ tokens' = Append(tokens, item)
    /\ TakeItem(item)
    /\ UNCHANGED <<unparsed, reparsed, recombined>>
    /\ UNCHANGED <<ver_vars, match_vars, part_vars, ctree_vars>>

Open ==
    /\ status = "parsing"
    /\ TakeToken("(")

Or ==
    /\ status = "parsing"
    /\ TakeToken("|")

And ==
    /\ status = "parsing"
    /\ TakeToken(",")

Close ==
    /\ status = "parsing"
    /\ TakeToken(")")

Leaf ==
    /\ status = "parsing"
    /\ IF tokens = <<>> THEN TRUE ELSE tokens[Len(tokens)] \notin PlainTokens
    /\ \E item \in LeafTokens : TakeToken(item)

\* The ")" that format! puts after spec_str, then the check of line 312.
Finish ==
    /\ status = "parsing"
    /\ LET r == treeify_item(")", output, stack)
       IN  IF r.err # ""
           THEN /\ status' = "err"
                /\ error' = r.err
                /\ UNCHANGED <<output, stack>>
           ELSE IF r.stack # <<>>
           THEN /\ status' = "err"
                /\ error' = UnableError
                /\ output' = r.output
                /\ stack' = r.stack
           ELSE /\ status' = "ok"
                /\ output' = r.output
                /\ stack' = r.stack
                /\ UNCHANGED error
    /\ UNCHANGED <<tokens, unparsed, reparsed, recombined>>
    /\ UNCHANGED <<ver_vars, match_vars, part_vars, ctree_vars>>

\* untreeify on the tree that treeify returned, then treeify on its string.
Untreeify ==
    /\ status = "ok"
    /\ status' = "untreeified"
    /\ unparsed' = untreeify(output)
    /\ reparsed' = IF untreeify(output).err = ""
                   THEN treeify(untreeify(output).str)
                   ELSE NoResult
    /\ UNCHANGED <<tokens, output, stack, error, recombined>>
    /\ UNCHANGED <<ver_vars, match_vars, part_vars, ctree_vars>>

\* untreeify on the tree that the second treeify returned.
Recombine ==
    /\ status = "untreeified"
    /\ unparsed.err = ""
    /\ reparsed.err = ""
    /\ status' = "recombined"
    /\ recombined' = untreeify(reparsed.tree)
    /\ UNCHANGED <<tokens, output, stack, error, unparsed, reparsed>>
    /\ UNCHANGED <<ver_vars, match_vars, part_vars, ctree_vars>>

NextTreeify ==
    Start \/ Open \/ Or \/ And \/ Close \/ Leaf \/ Finish \/ Untreeify \/ Recombine

\* ------------------------------------------------- state: parsing tokens

\* The specifiers handed to the parse entry points: the empty one, the single
\* tokens, and some compound ones.
Specifiers ==
    { <<>> } \union { <<t>> : t \in SpecTokens }
        \union { <<"1.1", ",", "1.1.*">>, <<"==1.1", "|", "1.1@1">>,
                 <<"1.1", ",", "1.*", "|", "1">> }

\* The text of a specifier of at most one token.
TokenText(spec) == IF spec = <<>> THEN "" ELSE spec[1]

InitMatch ==
    /\ ver_a = <<Integer(0)>>
    /\ ver_b = <<Integer(0)>>
    /\ ver_c = <<Integer(0)>>
    /\ InitResults
    /\ InitTree
    /\ spec_str \in Specifiers
    /\ candidate \in CandidateTexts
    /\ InitMatchResults
    /\ InitPartsIdle
    /\ InitTreesIdle

\* get_matcher on a specifier of one token.
GetMatcher ==
    /\ mpc = "input"
    /\ Len(spec_str) <= 1
    /\ mpc' = "got_matcher"
    /\ parsed' = get_matcher(TokenText(spec_str))
    /\ UNCHANGED <<spec_str, candidate, verdict>>
    /\ UNCHANGED <<ver_vars, tree_vars, part_vars, ctree_vars>>

\* VersionSpec::try_from on the specifier.
TryFrom ==
    /\ mpc = "input"
    /\ mpc' = "constructed"
    /\ parsed' = VersionSpec_try_from(spec_str)
    /\ UNCHANGED <<spec_str, candidate, verdict>>
    /\ UNCHANGED <<ver_vars, tree_vars, part_vars, ctree_vars>>

\* MatchFn::test of the matcher get_matcher returned, on the candidate.
MatcherTest ==
    /\ mpc = "got_matcher"
    /\ parsed.outcome = "ok"
    /\ mpc' = "tested"
    /\ verdict' = MatchEnum_test(parsed.matcher, candidate)
    /\ UNCHANGED <<spec_str, candidate, parsed>>
    /\ UNCHANGED <<ver_vars, tree_vars, part_vars, ctree_vars>>

\* MatchFn::test of the default matcher on the candidate.
DefaultTest ==
    /\ mpc = "input"
    /\ mpc' = "default_tested"
    /\ verdict' = MatchEnum_test(MatchEnum_default, candidate)
    /\ UNCHANGED <<spec_str, candidate, parsed>>
    /\ UNCHANGED <<ver_vars, tree_vars, part_vars, ctree_vars>>

NextMatch == GetMatcher \/ TryFrom \/ MatcherTest \/ DefaultTest

\* -------------------------------------------- state: parts and operators

\* The texts of the PEP440String parts.
PEP440Texts ==
    { <<>>, <<"a">>, <<"d">>, <<"z">>, <<"r", "c">>, <<"R", "C">>,
      <<"d", "e", "v">>, <<"D", "E", "V">>, <<"a", "d", "e", "v">>,
      <<"p", "o", "s", "t">>, <<"P", "O", "S", "T">>, <<"a", "p", "o", "s", "t">>,
      <<"d", "e", "v", "p", "o", "s", "t">> }

Parts ==
    { Epoch(0), Epoch(1), Integer(0), Integer(1), Integer(2),
      LexicographicString(<<>>), LexicographicString(<<"a">>),
      LexicographicString(<<"z">>), Empty }
        \union { PEP440String(t) : t \in PEP440Texts }

InitParts ==
    /\ ver_a = <<Integer(0)>>
    /\ ver_b = <<Integer(0)>>
    /\ ver_c = <<Integer(0)>>
    /\ InitResults
    /\ InitTree
    /\ InitMatchIdle
    /\ part_a \in Parts
    /\ part_b \in Parts
    /\ comp_op \in CompOps
    /\ InitPartResults
    /\ InitTreesIdle

\* PartialOrd and PartialEq of VersionPart, on the two parts in both orders.
PartialCmp ==
    /\ ppc = "input"
    /\ ppc' = "compared"
    /\ part_cmp' = [ab |-> partial_cmp(part_a, part_b),
                    ba |-> partial_cmp(part_b, part_a),
                    eq |-> eq(part_a, part_b)]
    /\ UNCHANGED <<part_a, part_b, comp_op, inverted, opposed, flipped>>
    /\ UNCHANGED <<ver_vars, tree_vars, match_vars, ctree_vars>>

\* CompOp::invert, once and on its own result.
Invert ==
    /\ ppc = "input"
    /\ ppc' = "inverted"
    /\ inverted' = [once |-> invert(comp_op), twice |-> invert(invert(comp_op))]
    /\ UNCHANGED <<part_a, part_b, comp_op, part_cmp, opposed, flipped>>
    /\ UNCHANGED <<ver_vars, tree_vars, match_vars, ctree_vars>>

\* CompOp::opposite, once and on its own result.
Opposite ==
    /\ ppc = "input"
    /\ ppc' = "opposed"
    /\ opposed' = [once |-> opposite(comp_op), twice |-> opposite(opposite(comp_op))]
    /\ UNCHANGED <<part_a, part_b, comp_op, part_cmp, inverted, flipped>>
    /\ UNCHANGED <<ver_vars, tree_vars, match_vars, ctree_vars>>

\* CompOp::flip, once and on its own result.
Flip ==
    /\ ppc = "input"
    /\ ppc' = "flipped"
    /\ flipped' = [once |-> flip(comp_op), twice |-> flip(flip(comp_op))]
    /\ UNCHANGED <<part_a, part_b, comp_op, part_cmp, inverted, opposed>>
    /\ UNCHANGED <<ver_vars, tree_vars, match_vars, ctree_vars>>

NextParts == PartialCmp \/ Invert \/ Opposite \/ Flip

\* Two versions and an operator: any two versions with one operator, or two
\* integer versions with any operator.
InitFlip ==
    /\ \/ ver_a \in Versions /\ ver_b \in Versions /\ comp_op = "Lt"
       \/ ver_a \in IntegerVersions /\ ver_b \in IntegerVersions /\ comp_op \in CompOps
    /\ ver_c = ver_a
    /\ InitResults
    /\ InitTree
    /\ InitMatchIdle
    /\ part_a = Empty
    /\ part_b = Empty
    /\ InitPartResults
    /\ InitTreesIdle

NextFlip == Flip \/ CompareToFlip

\* ------------------------------------------------- state: constraint trees

Combinators == { "And", "Or", "None" }

TreeLeaves == { "a", "b" }

StringItems == { StringItem(l) : l \in TreeLeaves }

\* Trees whose children are all leaves.
FlatTrees ==
    { ConstraintTree(c, parts) :
        c \in Combinators,
        parts \in UNION { [1..k -> StringItems] : k \in 0..MaxTreeParts } }

\* A child is a leaf or a tree of leaves.
Items ==
    StringItems \union { TreeItem(t) : t \in { f \in FlatTrees : Len(f.parts) < MaxTreeParts } }

\* Trees of one or two children.
NestedTrees ==
    { ConstraintTree(c, <<x>>) : c \in Combinators, x \in Items }
        \union { ConstraintTree(c, <<x, y>>) : c \in Combinators, x \in Items, y \in Items }

\* The trees of untreeify_and_joining_inner_or and untreeify_nested, on the
\* leaves a and b.
OrOfAnd ==
    ConstraintTree("Or", << TreeItem(ConstraintTree("And", <<StringItem("a"), StringItem("b")>>)),
                            StringItem("b") >>)

AndOfOr ==
    ConstraintTree("And", << TreeItem(ConstraintTree("Or", <<StringItem("a"), StringItem("b")>>)),
                             StringItem("b") >>)

OrWithInnerGroup ==
    ConstraintTree("Or",
        << StringItem("a"),
           TreeItem(ConstraintTree("And",
               << TreeItem(ConstraintTree("Or", <<StringItem("b"), StringItem("a")>>)),
                  StringItem("b"), StringItem("a") >>)),
           StringItem("b"), StringItem("a") >>)

ExampleTrees == { OrOfAnd, AndOfOr, OrWithInnerGroup }

Trees == FlatTrees \union NestedTrees \union ExampleTrees

\* The trees compared with each other.
ComparedTrees ==
    FlatTrees \union ExampleTrees \union { t \in NestedTrees : Len(t.parts) = 1 }

InitTrees ==
    /\ ver_a = <<Integer(0)>>
    /\ ver_b = <<Integer(0)>>
    /\ ver_c = <<Integer(0)>>
    /\ InitResults
    /\ InitTree
    /\ InitMatchIdle
    /\ InitPartsIdle
    /\ \/ tree_a \in Trees /\ tree_b = tree_a
       \/ tree_a \in ComparedTrees /\ tree_b \in ComparedTrees
    /\ InitTreeResults

\* untreeify on tree_a.
UntreeifyTree ==
    /\ tpc = "input"
    /\ tpc' = "combined"
    /\ combined' = untreeify(tree_a)
    /\ UNCHANGED <<tree_a, tree_b, leaf_truth, trees_equal, evaluated>>
    /\ UNCHANGED <<ver_vars, tree_vars, match_vars, part_vars>>

\* tree_a == tree_b.
EqTrees ==
    /\ tpc = "input"
    /\ tpc' = "compared"
    /\ trees_equal' = ConstraintTree_eq(tree_a, tree_b)
    /\ UNCHANGED <<tree_a, tree_b, leaf_truth, combined, evaluated>>
    /\ UNCHANGED <<ver_vars, tree_vars, match_vars, part_vars>>

\* tree_a.evaluate on a candidate that matches the leaves of `matching`.
EvaluateTree ==
    /\ tpc = "input"
    /\ tpc' = "evaluated"
    /\ \E matching \in SUBSET TreeLeaves :
          /\ leaf_truth' = matching
          /\ evaluated' = evaluate(tree_a, matching)
    /\ UNCHANGED <<tree_a, tree_b, combined, trees_equal>>
    /\ UNCHANGED <<ver_vars, tree_vars, match_vars, part_vars>>

NextTrees == UntreeifyTree \/ EqTrees \/ EvaluateTree

\* ---------------------------------------------------------- specifications

\* Pairs of versions under compare, compare_to and test_match.
Spec == InitVersions /\ [][NextVersions]_vars

\* Triples of versions under compare.
SpecOrder == InitOrder /\ [][Compare]_vars

\* treeify on every token sequence of up to MaxTokens tokens.
SpecTreeify == InitTreeify /\ [][NextTreeify]_vars

\* The parse entry points on tokens, and the matchers on candidates.
SpecMatch == InitMatch /\ [][NextMatch]_vars

\* Pairs of version parts under partial_cmp, operators under invert.
SpecParts == InitParts /\ [][NextParts]_vars

\* flip on an operator, compare_to on two versions with the operator flipped.
SpecFlip == InitFlip /\ [][NextFlip]_vars

\* untreeify, == and evaluate on constraint trees.
SpecTrees == InitTrees /\ [][NextTrees]_vars

\* ------------------------------------------------------------------ claims

Satisfies(result, op) ==
    \/ result = "Eq" /\ op \in {"Eq", "Le", "Ge"}
    \/ result = "Lt" /\ op \in {"Ne", "Lt", "Le"}
    \/ result = "Gt" /\ op \in {"Ne", "Gt", "Ge"}

\* C1: a relational token <op>V accepts the candidate C exactly when the
\* three-way comparison of C against V (C on the left) satisfies op.
C1_RelationalMatchCandidateLeft ==
    pc = "matched" =>
        \A sign \in RelationalSigns :
            matched[sign] = Satisfies(cmp.ab, from_sign(sign))

\* Parts that are the zero / empty value of their variant.
ZeroParts ==
    { Epoch(0), Integer(0), LexicographicString(<<>>), PEP440String(<<>>), Empty }

\* w is v followed by one or more zero/empty parts.
IsZeroExtension(v, w) ==
    /\ Len(w) > Len(v)
    /\ SubSeq(w, 1, Len(v)) = v
    /\ \A i \in (Len(v) + 1)..Len(w) : w[i] \in ZeroParts

CommonPrefixEqual(v, w) ==
    \A i \in 1..(IF Len(v) < Len(w) THEN Len(v) ELSE Len(w)) : v[i] = w[i]

\* Every part of v after position n equals the empty value of its variant.
RestIsEmpty(v, n) == \A i \in (n + 1)..Len(v) : v[i] \in ZeroParts

\* C3: once one sequence is exhausted every remaining part of the longer one is
\* compared with its empty value; the result is Eq only if all of them are
\* empty, so [1,0,1] against [1] is Gt and [1] against [1,0,1] is Lt.
C3_AllRemainingPartsCompared ==
    (pc = "compared" /\ CommonPrefixEqual(ver_a, ver_b) /\ cmp.ab = "Eq")
        => (RestIsEmpty(ver_a, Len(ver_b)) /\ RestIsEmpty(ver_b, Len(ver_a)))

LeOrEq(result) == result \in {"Lt", "Eq"}

\* C4: compare is a total ordering: a <= b and b <= c give a <= c, and
\* equality is transitive.
C4_CompareTransitive ==
    pc = "compared" =>
        /\ (LeOrEq(cmp.ab) /\ LeOrEq(cmp.bc)) => LeOrEq(cmp.ac)
        /\ (cmp.ab = "Eq" /\ cmp.bc = "Eq") => cmp.ac = "Eq"

Mirror(result) ==
    CASE result = "Lt" -> "Gt"
      [] result = "Gt" -> "Lt"
      [] OTHER -> result

\* C5: compare returns one of Lt, Eq, Gt, compare(b,a) is the mirror of
\* compare(a,b), compare(v,v) is Eq, and the factors are opposite.
C5_CompareMirror ==
    pc = "compared" =>
        /\ cmp.ab \in {"Lt", "Eq", "Gt"}
        /\ cmp.ba = Mirror(cmp.ab)
        /\ (ver_a = ver_b => cmp.ab = "Eq")
        /\ factor(cmp.ab) = - factor(cmp.ba)

C5_Witness ==
    /\ pc = "compared"
    /\ Len(ver_a) < Len(ver_b)
    /\ cmp.ab = "Lt"
    /\ cmp.ba = "Gt"
    /\ ver_b[Len(ver_b)].variant = "PEP440String"

RelationalOps == {"Eq", "Ne", "Lt", "Le", "Ge", "Gt"}

\* C6: compare_to(a,b,op) holds exactly for Eq with {Eq,Le,Ge}, Lt with
\* {Ne,Lt,Le}, Gt with {Ne,Gt,Ge}; so exactly one of op and op.invert() holds.
C6_CompareToTable ==
    pc = "compared_to" =>
        /\ \A op \in CompOps : cmp_to[op] = Satisfies(cmp.ab, op)
        /\ \A op \in RelationalOps : cmp_to[op] # cmp_to[invert(op)]

C6_Witness ==
    /\ pc = "compared_to"
    /\ cmp.ab = "Eq"
    /\ ver_a # ver_b
    /\ cmp_to["Le"]
    /\ ~cmp_to["Gt"]

\* ------------------------------------------------- claims about treeify

\* The specifier grammar, on tokens:
\*   expr := term ('|' term)*    term := factor (',' factor)*
\*   factor := '(' expr ')' | token
Depth(toks, i) ==
    Cardinality({ j \in 1..i : toks[j] = "(" })
        - Cardinality({ j \in 1..i : toks[j] = ")" })

Balanced(toks) ==
    /\ \A i \in 1..Len(toks) : Depth(toks, i) >= 0
    /\ Depth(toks, Len(toks)) = 0

\* A ")" that no "(" before it matches.
HasUnmatchedClose(toks) == \E i \in 1..Len(toks) : Depth(toks, i) < 0

\* The pieces of toks between the occurrences of op outside parentheses.
RECURSIVE SplitTop(_, _)
SplitTop(toks, op) ==
    LET cuts == { i \in 1..Len(toks) : toks[i] = op /\ Depth(toks, i - 1) = 0 }
    IN  IF cuts = {} THEN <<toks>>
        ELSE LET i == CHOOSE c \in cuts : \A d \in cuts : c <= d
             IN  <<SubSeq(toks, 1, i - 1)>>
                     \o SplitTop(SubSeq(toks, i + 1, Len(toks)), op)

\* The value of toks under the grammar: "true", "false", or "invalid" when
\* toks is not an expr.
RECURSIVE GrammarExpr(_, _)
GrammarFactor(toks, truth) ==
    IF Len(toks) = 1
    THEN (IF toks[1] \notin LeafTokens THEN "invalid"
          ELSE IF toks[1] \in truth THEN "true" ELSE "false")
    ELSE IF /\ Len(toks) >= 2
            /\ toks[1] = "("
            /\ toks[Len(toks)] = ")"
            /\ \A i \in 1..(Len(toks) - 1) : Depth(toks, i) >= 1
    THEN GrammarExpr(SubSeq(toks, 2, Len(toks) - 1), truth)
    ELSE "invalid"

GrammarTerm(toks, truth) ==
    LET fs == SplitTop(toks, ",")
        vs == { GrammarFactor(fs[i], truth) : i \in 1..Len(fs) }
    IN  IF "invalid" \in vs THEN "invalid"
        ELSE IF "false" \in vs THEN "false" ELSE "true"

GrammarExpr(toks, truth) ==
    IF ~Balanced(toks) THEN "invalid"
    ELSE LET ts == SplitTop(toks, "|")
             vs == { GrammarTerm(ts[i], truth) : i \in 1..Len(ts) }
         IN  IF "invalid" \in vs THEN "invalid"
             ELSE IF "true" \in vs THEN "true" ELSE "false"

\* A compound specifier: more than the one token.
Compound(toks) == Len(toks) >= 2

\* C7: for every compound specifier treeify accepts and every assignment of
\* truth values to its leaf tokens, evaluating the returned tree gives the
\* boolean that the specifier has under the grammar ("," AND, binding tighter
\* than "|" OR, parentheses grouping).
C7_TreeEvaluatesAsGrammar ==
    (status = "ok" /\ Compound(tokens)) =>
        \A truth \in SUBSET LeafTokens :
            /\ GrammarExpr(tokens, truth) # "invalid"
            /\ evaluate(output, truth) = GrammarExpr(tokens, truth)

\* An operator with no operand on one side: it is first or last, or it
\* follows "(" or an operator, or ")" or an operator follows it.
IsOperator(tok) == tok \in { ",", "|" }

HasDanglingOperator(toks) ==
    \E i \in 1..Len(toks) :
        /\ IsOperator(toks[i])
        /\ \/ i = 1
           \/ i = Len(toks)
           \/ toks[i - 1] = "(" \/ IsOperator(toks[i - 1])
           \/ toks[i + 1] = ")" \/ IsOperator(toks[i + 1])

\* C8: treeify accepts no specifier in which a "," or "|" lacks an operand on
\* its left or its right (adjacent operators, a leading or a trailing operator,
\* at the top level or inside parentheses).
C8_DanglingOperatorRejected ==
    status = "ok" => ~HasDanglingOperator(tokens)

\* C9: treeify accepts no specifier with unbalanced parentheses; the error
\* "expression must start with '('" comes only with a ")" that nothing opens,
\* the end-of-input error only with parentheses that do not balance.
C9_UnbalancedParenthesesRejected ==
    /\ status = "ok" => Balanced(tokens)
    /\ (status = "err" /\ error = MustStartError) => HasUnmatchedClose(tokens)
    /\ (status = "err" /\ error = UnableError) => ~Balanced(tokens)

\* Every node below the root has a child, an And/Or node has two, and no
\* node below the root has combinator None.
RECURSIVE WellFormedBelow(_)
WellFormedBelow(item) ==
    \/ item.kind = "String"
    \/ /\ item.kind = "ConstraintTree"
       /\ item.tree.combinator \in { "And", "Or" }
       /\ Len(item.tree.parts) >= 2
       /\ \A i \in 1..Len(item.tree.parts) : WellFormedBelow(item.tree.parts[i])

WellFormed(tree, toks) ==
    IF tree.combinator = "None"
    THEN /\ Len(toks) = 1
         /\ Len(tree.parts) = 1
         /\ tree.parts[1].kind = "String"
    ELSE WellFormedBelow(TreeItem(tree))

\* C10: every tree treeify returns is well-formed: no node without children,
\* every And/Or node with at least two, combinator None only on the root of a
\* single-token specifier with exactly one leaf child.
C10_ReturnedTreeWellFormed ==
    status = "ok" => WellFormed(output, tokens)

\* C11: for every specifier treeify accepts, untreeify of the tree succeeds
\* and treeify of the string it gives returns the same tree.
C11_RoundTrip ==
    status = "untreeified" =>
        /\ unparsed.err = ""
        /\ reparsed = [err |-> "", tree |-> output]

\* ------------------------------------------------- claims about matchers

\* c begins with the parts of v.
PartsStartWith(c, v) == Len(c) >= Len(v) /\ SubSeq(c, 1, Len(v)) = v

Truth(b) == IF b THEN "true" ELSE "false"

CandidateParts == conda_parser(Chars(candidate))

\* The starts-with tokens with the version V of each, and the tokens !=V.*.
StartsWithTokens == { "1.*", "1.1.*", "1.1*", "=1.1" }

NotStartsWithTokens == { "!=1.1.*" }

StartsWithVersion(t) == IF t = "1.*" THEN <<Integer(1)>> ELSE <<Integer(1), Integer(1)>>

\* C12: V.*, V* and =V match a candidate exactly when its parts begin with the
\* parts of V, and !=V.* matches exactly when V.* does not.
C12_StartsWithMatchers ==
    /\ (mpc = "got_matcher"
          /\ TokenText(spec_str) \in StartsWithTokens \union NotStartsWithTokens)
        => parsed.outcome = "ok"
    /\ (mpc = "tested" /\ TokenText(spec_str) \in StartsWithTokens)
        => verdict = Truth(PartsStartWith(CandidateParts,
                                          StartsWithVersion(TokenText(spec_str))))
    /\ (mpc = "tested" /\ TokenText(spec_str) \in NotStartsWithTokens)
        => verdict = Truth(~PartsStartWith(CandidateParts, <<Integer(1), Integer(1)>>))

\* C13: ~=V matches a candidate C exactly when C >= V and C begins with V
\* without its last component.
C13_CompatibleRelease ==
    /\ (mpc = "got_matcher" /\ TokenText(spec_str) = "~=1.1")
        => parsed.outcome = "ok"
    /\ (mpc = "tested" /\ TokenText(spec_str) = "~=1.1")
        => verdict = Truth(/\ compare(CandidateParts, <<Integer(1), Integer(1)>>)
                                 \in {"Gt", "Eq"}
                           /\ PartsStartWith(CandidateParts, <<Integer(1)>>))

\* The specifiers that are exact: one token that is a plain version, an
\* ==-prefixed version, or a token with "@".
ExactSpecifiers == { <<"1">>, <<"1.1">>, <<"1.1.0">>, <<"==1.1">>, <<"1.1@1">> }

\* The wildcard, regex, other relational and compound specifiers.
InexactSpecifiers ==
    { <<"1.1*">>, <<"1.1.*">>, <<"1.*">>, <<"*">>, <<"1.*.1">>, <<"^1.1$">>,
      <<">=1.1">>, <<"!=1.1">>, <<"~=1.1">>, <<"=1.1">>, <<"<1.1">>,
      <<"1.1", ",", "1.1.*">>, <<"==1.1", "|", "1.1@1">> }

\* C14: is_exact() of a successfully built VersionSpec is true for the exact
\* specifiers and false for the wildcard, regex, other relational and compound
\* ones.
C14_IsExact ==
    (mpc = "constructed" /\ parsed.outcome = "ok") =>
        /\ spec_str \in ExactSpecifiers => parsed.is_exact
        /\ spec_str \in InexactSpecifiers => ~parsed.is_exact

\* Compatible release with a wildcard, and arbitrary equality.
RejectedTokens == { "~=1.1.*", "===1.1", "===1.1.*", "===1.1*" }

\* C15: every ~=V.* token and every === token is rejected with a parse error
\* by the parse entry points.
C15_UnsupportedOperatorsRejected ==
    (mpc \in {"got_matcher", "constructed"} /\ Len(spec_str) = 1
        /\ TokenText(spec_str) \in RejectedTokens)
        => parsed.outcome = "err"

\* Tokens anchored on one side only.
HalfAnchoredTokens == { "^1.1", "1.1$", "^" }

\* C16: a token anchored with "^" or "$" on one side only is a parse error
\* when the VersionSpec is built; a token anchored on both sides becomes a
\* regex matcher.
C16_HalfAnchoredRejected ==
    /\ (mpc \in {"got_matcher", "constructed"} /\ Len(spec_str) = 1
          /\ TokenText(spec_str) \in HalfAnchoredTokens)
        => parsed.outcome = "err"
    /\ (mpc = "got_matcher" /\ spec_str = <<"^1.1$">>)
        => (parsed.outcome = "ok" /\ parsed.matcher.kind = "MatchRegex")

\* Malformed specifier texts.
MalformedSpecifiers == { <<>>, <<"><1.1">>, <<"!!1.1">>, <<"!">>, <<"~">> }

\* C17: no parse or match entry point panics: malformed text yields an error
\* value, and the test of a parsed specifier yields a boolean.
C17_NoPanic ==
    /\ parsed.outcome # "panic"
    /\ verdict # "panic"
    /\ (mpc \in {"got_matcher", "constructed"} /\ spec_str \in MalformedSpecifiers)
        => parsed.outcome = "err"

\* ------------------------------------------------------------------ part and operator claims

\* Rank of a variant as the ordering is stated: a larger rank is a greater part.
VariantRank(part) ==
    CASE part.variant = "Epoch" -> 5
      [] part.variant = "Integer" -> 4
      [] part.variant = "LexicographicString" -> 3
      [] part.variant = "PEP440String" -> 2
      [] OTHER -> 1

OrderOfRanks(m, n) == IF m > n THEN "Greater" ELSE IF m < n THEN "Less" ELSE "Equal"

\* C18: parts of different variants are ordered Epoch > Integer > LexicographicString >
\* PEP440String > Empty whatever their values; Epoch and Integer parts of the same
\* variant compare by number, LexicographicString parts by text, and Empty equals Empty.
C18_CrossTypeOrdering ==
    ppc = "compared" =>
        /\ part_a.variant # part_b.variant
            => part_cmp.ab = OrderOfRanks(VariantRank(part_a), VariantRank(part_b))
        /\ (part_a.variant = part_b.variant /\ part_a.variant \in {"Epoch", "Integer"})
            => part_cmp.ab = OrderOfRanks(part_a.num, part_b.num)
        /\ (part_a.variant = "LexicographicString" /\ part_b.variant = "LexicographicString")
            => part_cmp.ab = str_cmp(part_a.alpha, part_b.alpha)
        /\ (part_a = Empty /\ part_b = Empty) => (part_cmp.ab = "Equal" /\ part_cmp.eq)

C18_Witness ==
    /\ ppc = "compared"
    /\ part_a = Epoch(0)
    /\ part_b = Integer(1)
    /\ part_cmp.ab = "Greater"

\* Level of a PEP440 token: post above the empty token above plain above dev.
PEP440Level(text) ==
    IF contains(to_lowercase(text), <<"p", "o", "s", "t">>) THEN 4
    ELSE IF text = <<>> THEN 3
    ELSE IF contains(to_lowercase(text), <<"d", "e", "v">>) THEN 1
    ELSE 2

\* C19: two PEP440 tokens of different levels (post, empty, plain, dev; case ignored)
\* compare by level, and two plain tokens compare as case-insensitive text.
C19_PEP440Levels ==
    (ppc = "compared" /\ part_a.variant = "PEP440String" /\ part_b.variant = "PEP440String") =>
        /\ PEP440Level(part_a.alpha) # PEP440Level(part_b.alpha)
            => part_cmp.ab = OrderOfRanks(PEP440Level(part_a.alpha), PEP440Level(part_b.alpha))
        /\ (PEP440Level(part_a.alpha) = 2 /\ PEP440Level(part_b.alpha) = 2)
            => part_cmp.ab = str_cmp(to_lowercase(part_a.alpha), to_lowercase(part_b.alpha))
        /\ (part_a = PEP440String(<<"r", "c">>) /\ part_b = PEP440String(<<"R", "C">>))
            => part_cmp.ab = "Equal"

C19_Witness ==
    /\ ppc = "compared"
    /\ part_a = PEP440String(<<"a">>)
    /\ part_b = PEP440String(<<>>)
    /\ part_cmp.ab = "Less"

\* The inverse of each operator as the pairing is stated.
InvertPairs ==
    [op \in CompOps |->
        CASE op = "Eq" -> "Ne"
          [] op = "Ne" -> "Eq"
          [] op = "Lt" -> "Ge"
          [] op = "Ge" -> "Lt"
          [] op = "Le" -> "Gt"
          [] op = "Gt" -> "Le"
          [] op = "StartsWith" -> "NotStartsWith"
          [] op = "NotStartsWith" -> "StartsWith"
          [] op = "Compatible" -> "Incompatible"
          [] op = "Incompatible" -> "Compatible"]

\* C20: inverting an operator twice gives it back, the inverse is the paired
\* operator, and no operator is its own inverse.
C20_InvertInvolution ==
    ppc = "inverted" =>
        /\ inverted.twice = comp_op
        /\ inverted.once = InvertPairs[comp_op]
        /\ inverted.once # comp_op

C20_Witness ==
    /\ ppc = "inverted"
    /\ comp_op = "Le"
    /\ inverted.once = "Gt"
    /\ inverted.twice = "Le"

\* The operator that opposite returns, as the code's own tests list it.
OppositePairs ==
    [op \in CompOps |->
        CASE op = "Eq" -> "Ne"
          [] op = "Ne" -> "Eq"
          [] op = "Lt" -> "Gt"
          [] op = "Gt" -> "Lt"
          [] op = "Le" -> "Ge"
          [] op = "Ge" -> "Le"
          [] op = "StartsWith" -> "NotStartsWith"
          [] op = "NotStartsWith" -> "StartsWith"
          [] op = "Compatible" -> "Incompatible"
          [] op = "Incompatible" -> "Compatible"]

\* C21 (as stated): opposite swaps Lt with Gt, Le with Ge, StartsWith with
\* NotStartsWith and Compatible with Incompatible, and returns Eq for Eq and
\* Ne for Ne.
C21_OppositeLeavesEqNeFixed ==
    ppc = "opposed" =>
        opposed.once = IF comp_op \in {"Eq", "Ne"} THEN comp_op ELSE OppositePairs[comp_op]

\* C21 (amended): opposite swaps Eq with Ne, Lt with Gt, Le with Ge,
\* StartsWith with NotStartsWith and Compatible with Incompatible; no operator
\* is left fixed, and opposite of opposite is the operator itself.
C21_OppositeSwapsAllPairs ==
    ppc = "opposed" =>
        /\ opposed.once = OppositePairs[comp_op]
        /\ opposed.once # comp_op
        /\ opposed.twice = comp_op

C21_Witness ==
    /\ ppc = "opposed"
    /\ comp_op = "Eq"
    /\ opposed.once = "Ne"

\* The flipped operator as the claim states it.
FlipPairs ==
    [op \in CompOps |->
        CASE op = "Lt" -> "Gt"
          [] op = "Gt" -> "Lt"
          [] op = "Le" -> "Ge"
          [] op = "Ge" -> "Le"
          [] OTHER -> op]

\* C22: flip swaps Lt with Gt and Le with Ge and returns every other operator
\* unchanged; flipping twice gives the operator back; and for every relational
\* operator a.compare_to(b, op) equals b.compare_to(a, op.flip()).
C22_FlipMirrorsCompareTo ==
    /\ ppc = "flipped" =>
          /\ flipped.once = FlipPairs[comp_op]
          /\ flipped.twice = comp_op
    /\ pc = "flipped" =>
          \A op \in RelationalOps : cmp_to[op] = cmp_to_flip[op]

C22_Witness ==
    /\ ppc = "flipped"
    /\ comp_op = "Le"
    /\ flipped.once = "Ge"
    /\ pc = "flipped"
    /\ cmp.ab = "Lt"
    /\ cmp_to["Le"]
    /\ cmp_to_flip["Le"]

\* ------------------------------------------- claims about constraint trees

\* The rendering as stated: the children in order, a child tree in
\* parentheses, the separator of the node between them.
RECURSIVE Rendering(_)
RECURSIVE RenderingFrom(_, _)
RenderedChild(item) ==
    IF item.kind = "String" THEN <<item.s>>
    ELSE <<"(">> \o Rendering(item.tree) \o <<")">>

RenderingFrom(tree, i) ==
    IF i = Len(tree.parts) THEN RenderedChild(tree.parts[i])
    ELSE RenderedChild(tree.parts[i])
            \o << IF tree.combinator = "And" THEN "," ELSE "|" >>
            \o RenderingFrom(tree, i + 1)

Rendering(tree) == RenderingFrom(tree, 1)

RECURSIVE Flattened(_)
Flattened(tree) ==
    \A i \in 1..Len(tree.parts) :
        LET item == tree.parts[i]
        IN  item.kind = "ConstraintTree" =>
                /\ tree.combinator \in {"And", "Or"} => item.tree.combinator # tree.combinator
                /\ Flattened(item.tree)

\* C24: in every tree treeify returns no And/Or node has a child tree with
\* the same combinator; a chain of one operator becomes one node with the
\* operands in source order.
C24_Flattening ==
    status = "ok" =>
        /\ Flattened(output)
        /\ tokens = <<"a", "|", "b", "|", "a">>
            => output = ConstraintTree("Or", <<StringItem("a"), StringItem("b"), StringItem("a")>>)

\* C25: two PEP440 tokens that both contain post, or that are both non-empty,
\* contain dev and not post, compare as case-insensitive text, so they are
\* equal only if their texts are equal ignoring case.
C25_SameLevelComparesText ==
    (ppc = "compared" /\ part_a.variant = "PEP440String" /\ part_b.variant = "PEP440String"
        /\ PEP440Level(part_a.alpha) = PEP440Level(part_b.alpha)
        /\ PEP440Level(part_a.alpha) \in {1, 4}) =>
            part_cmp.ab = str_cmp(to_lowercase(part_a.alpha), to_lowercase(part_b.alpha))

\* The value of a tree as stated: None never matches, And needs every child,
\* Or needs one.
RECURSIVE TreeMatches(_, _)
ItemMatches(item, matching) ==
    IF item.kind = "String" THEN item.s \in matching
    ELSE TreeMatches(item.tree, matching)

TreeMatches(tree, matching) ==
    CASE tree.combinator = "And" ->
            \A i \in 1..Len(tree.parts) : ItemMatches(tree.parts[i], matching)
      [] tree.combinator = "Or" ->
            \E i \in 1..Len(tree.parts) : ItemMatches(tree.parts[i], matching)
      [] OTHER -> FALSE

\* C26: evaluating a tree yields a boolean: false for a tree with combinator
\* None, for And whether all children match, for Or whether one child does.
C26_EvaluateNoneIsFalse ==
    tpc = "evaluated" =>
        /\ evaluated \in {"true", "false"}
        /\ tree_a.combinator = "None" => evaluated = "false"
        /\ evaluated = Truth(TreeMatches(tree_a, leaf_truth))

\* C27 (as stated): untreeify returns an error for a tree with no child and
\* for a tree with exactly one child.
C27_SingleChildIsError ==
    (tpc = "combined" /\ Len(tree_a.parts) <= 1) => combined.err # ""

\* C27 (amended): untreeify returns an error for a tree with no child and
\* for a tree whose only child is a tree; a tree whose only child is a leaf
\* specifier is rendered as the text of that leaf.
C27_SingleLeafIsRendered ==
    tpc = "combined" =>
        /\ Len(tree_a.parts) = 0 =>
              combined = [err |-> "Can't combine (stringify) a zero-element ConstraintTree",
                          str |-> <<>>]
        /\ (Len(tree_a.parts) = 1 /\ tree_a.parts[1].kind = "ConstraintTree") =>
              combined.err # ""
        /\ (Len(tree_a.parts) = 1 /\ tree_a.parts[1].kind = "String") =>
              combined = [err |-> "", str |-> <<tree_a.parts[1].s>>]

C27_Witness ==
    /\ tpc = "combined"
    /\ tree_a = ConstraintTree("None", <<StringItem("a")>>)
    /\ combined = [err |-> "", str |-> <<"a">>]

\* C28: when untreeify of the tree treeify returned gives the string c,
\* treeify accepts c, and untreeify of the tree of c gives c again, token for
\* token.
C28_CanonicalFormIdempotent ==
    /\ (status = "untreeified" /\ unparsed.err = "") => reparsed.err = ""
    /\ status = "recombined" => recombined = unparsed

\* C29: two trees are equal only if they have the same combinator, the same
\* number of children and pairwise equal children in the same order, and
\* every tree equals itself.
C29_StructuralEquality ==
    tpc = "compared" =>
        /\ trees_equal => tree_a = tree_b
        /\ tree_a = tree_b => trees_equal

\* C30 (as stated): the test of MatchNever, the default matcher, returns true
\* for every candidate, and no successful parse returns MatchNever.
C30_NeverMatchReturnsTrue ==
    /\ mpc = "default_tested" => verdict = "true"
    /\ (mpc \in {"got_matcher", "constructed", "tested"} /\ parsed.outcome = "ok")
        => parsed.matcher.kind # "MatchNever"

\* C30 (amended): the test of MatchNever, the default matcher, returns false
\* for every candidate, and no successful parse returns MatchNever.
C30_NeverMatchReturnsFalse ==
    /\ mpc = "default_tested" => (MatchEnum_default.kind = "MatchNever" /\ verdict = "false")
    /\ (mpc \in {"got_matcher", "constructed", "tested"} /\ parsed.outcome = "ok")
        => parsed.matcher.kind # "MatchNever"

C30_Witness ==
    /\ mpc = "default_tested"
    /\ candidate = "1.1"
    /\ verdict = "false"

====
